---------------------------- MODULE Spec2Model ----------------------------
(***************************************************************************)
(* Scheduling engine of BlogInsightHub.                                    *)
(*                                                                         *)
(* The repository holds two servers with the same schedule API:            *)
(*   "ts" : server/scheduler.ts + server/routes.ts + server/storage.ts     *)
(*          (src/unnamed/part_003, src/server/storage.ts), a relational    *)
(*          store whose every call is one atomic statement;                *)
(*   "js" : src/server.js, which keeps schedules in a JSON file that each  *)
(*          handler reads whole and writes whole.                          *)
(* A behaviour runs one of them (impl is chosen in Init and never          *)
(* changes).  Every await of a handler is one step: the step is the        *)
(* instant at which the awaited storage call takes effect, and the         *)
(* synchronous code that follows the last await of a handler (the calls    *)
(* into the trigger registry) is a step of its own, so that continuations  *)
(* of different handlers interleave as they do on the Node event loop.     *)
(***************************************************************************)
EXTENDS Integers, FiniteSets, Sequences, Bags, TLC

\* ------------------------------------------------------------- bounds
MaxSchedules == 1   \* schedule identifiers that can be created
MaxTime      == 1   \* the clock runs over 0..MaxTime
MaxTimers    == 2   \* cron task handles that can be live at once
MaxRuns      == 2   \* executions in flight at once
MaxInFlight  == 2   \* API requests in flight at once
MaxUrls      == 2   \* distinct lead URLs
MaxLeads     == 3   \* lead rows that can be created
MaxBootSchedules == 2   \* schedules persisted when the process starts
MaxCandidates    == 2   \* search results of one keyword
MaxStored        == 2   \* leads in the table when a pipeline request starts
LeadsReadLimit   == 1   \* rows the pipeline reads: stands for the 1000 of
                        \* storage.getBloggerLeads(1000)
MaxKeywords      == 2   \* keywords of one pipeline request
MaxPages         == 2   \* serpPages: result pages requested per keyword
MaxPatches       == 1   \* PATCH requests on leads in flight beside a pipeline
MaxInvocations   == 2   \* pipeline requests in flight together

Ids     == 1..MaxSchedules
Time    == 0..MaxTime
Handles == 1..MaxTimers
Urls    == 1..MaxUrls
BootIds == 1..MaxBootSchedules

VARIABLES
  impl,            \* "ts" | "js": which server of the repository runs
  now,             \* new Date()
  schedules,       \* persisted schedules: the table / data/schedules.json
  nextId,          \* identifiers handed out so far (crypto.randomUUID / Date.now)
  registeredTasks, \* the Map scheduleId -> cron task (0: no entry)
  timers,          \* every cron task created and not stopped, by handle
  runs,            \* bag of trigger callbacks in flight
  reqs,            \* bag of schedule API requests in flight
  boot,            \* the startup load: "load" | "register" | "done"
  bootList,        \* what the startup load read
  lostOutcome,     \* history: a run of id had its last status write rejected
  deleteDone,      \* history: a DELETE of id was answered 204
  ev,              \* history: what the last step did
  leads,           \* persisted leads: the table / data/blogger-leads.json
  nextLead,        \* lead identifiers handed out so far
  leadReqs,        \* bag of lead-creation attempts in flight
  leadEv,          \* history: how the last lead-creation attempt ended
  sched,           \* the timing fields of the schedule a function is applied to
  clock,           \* the calendar instant at which it is applied
  cronExpr,        \* what toCronExpression returned
  nextRun,         \* what calculateNextRun returned, and for which write
  config,          \* the filter settings of a pipeline request
  leadsTable,      \* the leads table as the pipeline finds it, newest first
  originalResults, \* the search results of one keyword, pages merged
  candidates,      \* the results of the keyword with their reasons
  invocations,     \* the pipeline requests in flight together, by number
  pipe             \* the position and locals of a pipeline request

leadVars == <<leads, nextLead, leadReqs, leadEv>>
timeVars   == <<sched, clock, cronExpr, nextRun>>
filterVars == <<config, leadsTable, originalResults, candidates, invocations>>
fnVars     == <<timeVars, filterVars, pipe>>

vars == <<impl, now, schedules, nextId, registeredTasks, timers, runs, reqs,
          boot, bootList, lostOutcome, deleteDone, ev, leadVars, fnVars>>

\* ------------------------------------------------------------- values
NoRow   == [exists |-> FALSE]
NoTimer == [live |-> FALSE]
Unset   == -1

\* A schedule as POST /api/schedules stores it.  cronOk stands for its
\* timing fields: whether cron.schedule accepts the expression that
\* toCronExpression builds from them (it throws when it does not; the insert
\* schema puts no range on hour, minute, dayOfWeek or dayOfMonth).
NewRow(i, body) ==
  [exists |-> TRUE, id |-> i, isEnabled |-> body.isEnabled,
   enabledAt |-> body.enabledAt, searchConfig |-> body.searchConfig,
   cronOk |-> body.cronOk,
   lastRunAt |-> Unset, lastRunStatus |-> "unset", nextRunAt |-> Unset]

\* The fields of a schedule object that registerSchedule and the trigger
\* callback read.
Snapshot(row) ==
  IF row.exists
  THEN [exists |-> TRUE, id |-> row.id, isEnabled |-> row.isEnabled,
        enabledAt |-> row.enabledAt, searchConfig |-> row.searchConfig,
        cronOk |-> row.cronOk]
  ELSE NoRow

\* Request bodies: a create body, and the partial bodies of a PATCH.
CreateBodies ==
  [isEnabled : BOOLEAN, enabledAt : Time, searchConfig : BOOLEAN,
   cronOk : BOOLEAN]
PatchBodies ==
  [f : {"isEnabled"}, v : BOOLEAN] \cup [f : {"enabledAt"}, v : Time]

ApplyPatch(row, body) ==
  IF body.f = "isEnabled" THEN [row EXCEPT !.isEnabled = body.v]
  ELSE [row EXCEPT !.enabledAt = body.v]

\* calculateNextRun as the schedule lifecycle sees it: the rows of the
\* lifecycle carry no timing fields and its clock counts periods, so the
\* result is the next clock value.  The calendar computation itself is
\* calculateNextRunAt below.
calculateNextRun(s, t) == t + 1

\* ------------------------------------------------------------ storage
\* storage.updateSchedule: UPDATE ... WHERE id = i.  No row, no change.
updateSchedule(db, i, f) ==
  IF db[i].exists THEN [db EXCEPT ![i] = f[db[i]]] ELSE db

\* Variant of the first write that leaves lastRunStatus as it was.
markPendingNoStatus(db, r) ==
  updateSchedule(db, r.id,
    [s \in {db[r.id]} |-> [s EXCEPT !.lastRunAt = r.at]])

\* executeSearch, step 1: lastRunAt and lastRunStatus = "pending".
markPending(db, r) ==
  updateSchedule(db, r.id,
    [s \in {db[r.id]} |-> [s EXCEPT !.lastRunAt = r.at,
                                     !.lastRunStatus = "pending"]])

\* Variants of the outcome write: one that leaves lastRunStatus as it was,
\* one that stores "success" whatever the outcome.
markOutcomeNoStatus(db, r, status) ==
  updateSchedule(db, r.id,
    [s \in {db[r.id]} |-> [s EXCEPT !.nextRunAt = r.next]])

markOutcomeSuccess(db, r, status) ==
  updateSchedule(db, r.id,
    [s \in {db[r.id]} |-> [s EXCEPT !.lastRunStatus = "success",
                                     !.nextRunAt = r.next]])

\* executeSearch, step 3 and its catch block: the outcome and nextRunAt.
markOutcome(db, r, status) ==
  updateSchedule(db, r.id,
    [s \in {db[r.id]} |-> [s EXCEPT !.lastRunStatus = status,
                                     !.nextRunAt = r.next]])

\* ----------------------------------------------------- trigger registry
Registry == [tasks |-> registeredTasks, timers |-> timers]

FreeHandles(reg) == {h \in Handles : ~reg.timers[h].live}
NewHandle(reg)   == CHOOSE h \in FreeHandles(reg) :
                      \A g \in FreeHandles(reg) : h <= g

LiveTimers(reg, i) == {h \in Handles : reg.timers[h].live /\ reg.timers[h].id = i}

\* cron.schedule(expr, callback): a started task whose callback closes over
\* the schedule object it was registered with.
CronSchedule(s, reg) ==
  LET h == NewHandle(reg) IN
  [tasks  |-> [reg.tasks EXCEPT ![s.id] = h],
   timers |-> [reg.timers EXCEPT ![h] =
                 [live |-> TRUE, id |-> s.id, enabledAt |-> s.enabledAt,
                  searchConfig |-> s.searchConfig]]]

\* unregisterSchedule (scheduler.ts and server.js alike)
unregisterSchedule(i, reg) ==
  IF reg.tasks[i] # 0
  THEN [tasks  |-> [reg.tasks EXCEPT ![i] = 0],
        timers |-> [reg.timers EXCEPT ![reg.tasks[i]] = NoTimer]]
  ELSE reg

\* Variant of registerSchedule without its isEnabled test.
registerScheduleAlways(s, reg) == CronSchedule(s, reg)

\* registerSchedule of scheduler.ts
registerSchedule(s, reg) ==
  IF ~s.isEnabled THEN reg
  ELSE IF ~s.cronOk THEN reg   \* cron.schedule throws: caught and logged
  ELSE CronSchedule(s, reg)

\* refreshSchedule of scheduler.ts
refreshSchedule(s, reg) == registerSchedule(s, unregisterSchedule(s.id, reg))

\* registerSchedule of server.js
registerScheduleJs(s, reg) ==
  IF ~s.isEnabled THEN reg
  ELSE IF s.enabledAt > now THEN reg
  ELSE IF ~s.cronOk THEN unregisterSchedule(s.id, reg)   \* throws after the stop
  ELSE CronSchedule(s, unregisterSchedule(s.id, reg))

Register(s, reg) ==
  IF impl = "ts" THEN registerSchedule(s, reg) ELSE registerScheduleJs(s, reg)

\* A register call needs a handle for the task it may create.
CanRegister(reg) == FreeHandles(reg) # {}


\* A register call as the history records it: what it was given and whether
\* it changed the registry.
RegCall(s, reg) ==
  [id |-> s.id, isEnabled |-> s.isEnabled, future |-> s.enabledAt > now,
   changed |-> Register(s, reg) # reg]

\* ------------------------------------------------------- HTTP loopback
\* The POST routes each server registers (routes.ts + index.ts; server.js).
PostRoutesTs ==
  {"/api/search-configs", "/api/blogger-leads", "/api/review-decisions",
   "/api/collaborations", "/api/schedules", "/api/longtail-keywords",
   "/api/search/config", "/api/search/test"}
PostRoutesJs ==
  {"/api/schedules", "/api/longtail-keywords", "/api/search/config",
   "/api/search/test", "/api/blogger-leads"}

\* The endpoint each trigger callback posts to.
SearchPathTs == "/api/search"
SearchPathJs == "/api/search/test"

\* axios.post to the server itself: a path with no route is answered 404,
\* which axios throws; a routed call succeeds or fails with its handler
\* (provider down, timeout).
HttpPost(routes, path) ==
  IF path \in routes THEN {"ok", "fail"} ELSE {"404"}

\* ---------------------------------------------------- trigger callbacks
\* pended (history): the store accepted the run's first write and, if it
\* holds the schedule, holds lastRunStatus = "pending" and the run's lastRunAt.
Run(i, pc, cfg, at, next, clean) ==
  [id |-> i, pc |-> pc, cfg |-> cfg, at |-> at, next |-> next, clean |-> clean,
   pended |-> FALSE]

\* Variant of executeSearch without its enabledAt test.
executeSearchUnguarded(t) ==
  SetToBag({[id |-> t.id, pc |-> "pending", cfg |-> t.searchConfig,
             at |-> now, next |-> Unset, clean |-> TRUE, pended |-> FALSE]})

\* executeSearch of scheduler.ts up to its first await: the bag of runs the
\* fire of task t starts.
executeSearch(t) ==
  IF t.enabledAt > now THEN EmptyBag
  ELSE SetToBag({Run(t.id, "pending", t.searchConfig, now, Unset, TRUE)})

\* The cron callback of server.js up to its await of axios.post.
cronCallbackJs(t) ==
  SetToBag({Run(t.id, "call", t.searchConfig, Unset, Unset, TRUE)})

Callback(t) == IF impl = "ts" THEN executeSearch(t) ELSE cronCallbackJs(t)

RunsOf(i) == {r \in BagToSet(runs) : r.id = i}
RunCount(i) ==
  LET S == RunsOf(i)
      sum[T \in SUBSET S] ==
        IF T = {} THEN 0
        ELSE LET r == CHOOSE x \in T : TRUE
             IN CopiesIn(r, runs) + sum[T \ {r}]
  IN sum[S]

\* ------------------------------------------------ timing of a schedule
\* The timing fields of a schedule.  frequency is a free text column;
\* dayOfWeek and dayOfMonth are nullable (Unset); hour and minute are
\* absent (Unset) only in the JSON file of server.js.
Frequencies == {"daily", "weekly", "monthly", "hourly", "unset"}
Hours       == {0, 9, 23}
Minutes     == {0, 30, 59}
DaysOfWeek  == {0, 3, 6}
DaysOfMonth == {1, 15, 31}

Timings ==
  [frequency : Frequencies, hour : Hours \cup {Unset},
   minute : Minutes \cup {Unset}, dayOfWeek : DaysOfWeek \cup {Unset},
   dayOfMonth : DaysOfMonth \cup {Unset}]

NoTiming == [frequency |-> "unset", hour |-> Unset, minute |-> Unset,
             dayOfWeek |-> Unset, dayOfMonth |-> Unset]

\* A field of a cron expression: "*" or the text of a value.  The text of
\* an absent value ("undefined", "null") is Num(Unset), which no cron
\* field accepts.
Star   == [star |-> TRUE]
Num(n) == [star |-> FALSE, n |-> n]

\* x ?? d
Coalesce(x, d) == IF x = Unset THEN d ELSE x

\* The expression "minute hour dayOfMonth month dayOfWeek".
CronExpression(minute, hour, dom, month, dow) ==
  [minute |-> minute, hour |-> hour, dayOfMonth |-> dom, month |-> month,
   dayOfWeek |-> dow]

NoExpr == [none |-> TRUE]

\* Variant of toCronExpression that puts the weekday in the day-of-month
\* field.
toCronExpressionSwapped(s) ==
  IF s.frequency = "daily"
  THEN CronExpression(Num(s.minute), Num(s.hour), Star, Star, Star)
  ELSE IF s.frequency = "weekly"
  THEN CronExpression(Num(s.minute), Num(s.hour),
                      Num(Coalesce(s.dayOfWeek, 0)), Star, Star)
  ELSE IF s.frequency = "monthly"
  THEN CronExpression(Num(s.minute), Num(s.hour),
                      Num(Coalesce(s.dayOfMonth, 1)), Star, Star)
  ELSE CronExpression(Num(0), Num(0), Star, Star, Star)

\* toCronExpression of scheduler.ts
toCronExpression(s) ==
  IF s.frequency = "daily"
  THEN CronExpression(Num(s.minute), Num(s.hour), Star, Star, Star)
  ELSE IF s.frequency = "weekly"
  THEN CronExpression(Num(s.minute), Num(s.hour), Star, Star,
                      Num(Coalesce(s.dayOfWeek, 0)))
  ELSE IF s.frequency = "monthly"
  THEN CronExpression(Num(s.minute), Num(s.hour),
                      Num(Coalesce(s.dayOfMonth, 1)), Star, Star)
  ELSE CronExpression(Num(0), Num(0), Star, Star, Star)

\* toCronExpression of server.js
toCronExpressionJs(s) ==
  LET minute == Coalesce(s.minute, 0)
      hour   == Coalesce(s.hour, 0)
  IN IF s.frequency = "daily"
     THEN CronExpression(Num(minute), Num(hour), Star, Star, Star)
     ELSE IF s.frequency = "weekly"
     THEN CronExpression(Num(minute), Num(hour), Star, Star,
                         Num(Coalesce(s.dayOfWeek, 0)))
     ELSE IF s.frequency = "monthly"
     THEN CronExpression(Num(minute), Num(hour),
                         Num(Coalesce(s.dayOfMonth, 1)), Star, Star)
     ELSE CronExpression(Num(minute), Num(hour), Star, Star, Star)

\* The instants a cron task is tested against: node-cron runs the task at
\* an instant when each of the five fields is "*" or equals the instant's
\* value.
CronInstants ==
  [minute : Minutes \cup {1}, hour : Hours \cup {10},
   dayOfMonth : DaysOfMonth \cup {16}, month : {1, 6},
   dayOfWeek : DaysOfWeek \cup {4}]

FieldMatches(f, v) == f.star \/ f.n = v

CronMatches(e, t) ==
  /\ FieldMatches(e.minute, t.minute)
  /\ FieldMatches(e.hour, t.hour)
  /\ FieldMatches(e.dayOfMonth, t.dayOfMonth)
  /\ FieldMatches(e.month, t.month)
  /\ FieldMatches(e.dayOfWeek, t.dayOfWeek)

\* ---- calendar
\* An instant is a day (counted from 1 = 1 January of a common year), an
\* hour, a minute and what is left of the minute in milliseconds.
MonthLengths == <<31, 28, 31, 30, 31, 30, 31, 31, 30, 31, 30, 31>>

RECURSIVE DaysBefore(_)
\* Days of the year before month m (m = 13: the January that follows).
DaysBefore(m) == IF m = 1 THEN 0 ELSE DaysBefore(m - 1) + MonthLengths[m - 1]

\* Date.getMonth (here 1..12) and Date.getDate of a day of the year.
getMonth(d) == CHOOSE m \in 1..12 : DaysBefore(m) < d /\ d <= DaysBefore(m + 1)
getDate(d)  == d - DaysBefore(getMonth(d))

\* Date.setMonth(m) on a date whose day of month is dom: the day dom - 1
\* days after the first of month m, running over into the months that
\* follow when month m is shorter.
setMonth(m, dom) == DaysBefore(m) + dom

Later(a, b) ==
  \/ a.day > b.day
  \/ a.day = b.day /\ a.hour > b.hour
  \/ a.day = b.day /\ a.hour = b.hour /\ a.minute > b.minute
  \/ a.day = b.day /\ a.hour = b.hour /\ a.minute = b.minute /\ a.ms > b.ms

\* calculateNextRun of scheduler.ts, called at instant t.
calculateNextRunAt(s, t) ==
  LET day == IF s.frequency = "daily" THEN t.day + 1
             ELSE IF s.frequency = "weekly" THEN t.day + 7
             ELSE IF s.frequency = "monthly"
                  THEN setMonth(getMonth(t.day) + 1, getDate(t.day))
             ELSE t.day
  IN [day |-> day, hour |-> s.hour, minute |-> s.minute, ms |-> 0]

\* Date.getDay of a day of the year, 1 January being a Sunday (as in 2023).
getDay(d) == (d - 1) % 7

\* What node-cron compares with the expression at instant t; the year that
\* follows has the same months.
cronFieldsAt(t) ==
  LET d == ((t.day - 1) % 365) + 1
  IN [minute |-> t.minute, hour |-> t.hour, dayOfMonth |-> getDate(d),
      month |-> getMonth(d), dayOfWeek |-> getDay(t.day)]

\* The task of schedule s runs at instant t: at the start of a minute that
\* the expression matches.
firesAt(s, t) == t.ms = 0 /\ CronMatches(toCronExpression(s), cronFieldsAt(t))

\* The instants at which it is called.
ClockDays == {31, 59, 100, 365}
Instants  == [day : ClockDays, hour : Hours, minute : Minutes, ms : {0, 1}]

\* The writes of nextRunAt: POST and PATCH /api/schedules, and the success
\* and catch branches of executeSearch.
NextRunSites == {"create", "update", "success", "error"}

\* No function is being applied.
NoInstant == [day |-> 0, hour |-> 0, minute |-> 0, ms |-> 0]
NoNextRun == [site |-> "none"]

TimeIdle ==
  /\ sched = NoTiming
  /\ clock = NoInstant
  /\ cronExpr = NoExpr
  /\ nextRun = NoNextRun

\* --------------------------------------------- the candidate filters
\* A URL is text; of the text only some pieces matter to the filters, so a
\* URL is the sequence of its pieces: those of the host, then those of the
\* path.
PageUrls ==
  {[host |-> <<"a", ".com">>,         path |-> <<>>],
   [host |-> <<"www.", "a", ".com">>, path |-> <<"/y">>],
   [host |-> <<"b", ".EDU">>,         path |-> <<>>],
   [host |-> <<"c", ".com">>,         path |-> <<"/x", ".gov">>]}

\* String.toLowerCase, piece by piece.
toLowerCase(t) ==
  [k \in DOMAIN t |-> IF t[k] = ".EDU" THEN ".edu"
                      ELSE IF t[k] = ".GOV" THEN ".gov"
                      ELSE IF t[k] = "WWW." THEN "www."
                      ELSE t[k]]

\* String.includes for one piece.
includes(t, piece) == \E k \in DOMAIN t : t[k] = piece

\* The text of a URL.
UrlText(u) == u.host \o u.path

\* new URL(url).hostname.replace(/^www\./, ""): the host in lower case
\* without a leading "www.".
DomainOf(u) ==
  LET h == toLowerCase(u.host)
  IN IF Len(h) > 0 /\ h[1] = "www." THEN Tail(h) ELSE h

\* A search result: its link and what the filters find out about it.  neg:
\* title or snippet holds a negative keyword; images: the page has at least
\* 3 <img>; email: an address is found on the page.
Items == [link : PageUrls, neg : BOOLEAN, images : BOOLEAN, email : BOOLEAN]

\* The filter settings of the request body.
Configs ==
  [excludeGovEdu : BOOLEAN, mustContainImages : BOOLEAN,
   requireEmail : BOOLEAN, avoidDuplicates : BOOLEAN]

\* Sequences of at most n elements of S without repetition of links.
RECURSIVE ItemLists(_)
ItemLists(n) ==
  IF n = 0 THEN {<< >>}
  ELSE LET shorter == ItemLists(n - 1)
       IN shorter \cup
          {Append(p[1], p[2]) :
             p \in {q \in {x \in shorter : Len(x) = n - 1} \X Items :
                      \A k \in DOMAIN q[1] : q[1][k].link # q[2].link}}

\* storage.getBloggerLeads(limit): the newest limit rows.
getBloggerLeads(table, limit) ==
  SubSeq(table, 1, IF Len(table) < limit THEN Len(table) ELSE limit)

\* existingDomains: the non-empty domains of the leads read, in lower case.
existingDomainsOf(list) ==
  {toLowerCase(list[k].domain) : k \in DOMAIN list} \ {<< >>}

\* Leads as they get into the table: saved by the pipeline (domain as
\* DomainOf gives it) or posted with the domain the client sent.
StoredLeads ==
  {[url |-> u, domain |-> DomainOf(u)] : u \in PageUrls} \cup
  {[url |-> u, domain |-> u.host] : u \in PageUrls} \cup
  {[url |-> u, domain |-> << >>] : u \in {v \in PageUrls : v.path = << >>}}

RECURSIVE LeadLists(_)
LeadLists(n) ==
  IF n = 0 THEN {<< >>}
  ELSE LET shorter == LeadLists(n - 1)
       IN shorter \cup
          {Append(p[1], p[2]) :
             p \in {q \in {x \in shorter : Len(x) = n - 1} \X StoredLeads :
                      \A k \in DOMAIN q[1] : q[1][k].url # q[2].url}}

\* The reasons one result collects in the candidate loop, given the
\* domains seen so far.
reasonsOf(cf, it, domains) ==
  LET lowerUrl == toLowerCase(UrlText(it.link))
  IN (IF cf.excludeGovEdu /\ (includes(lowerUrl, ".gov") \/ includes(lowerUrl, ".edu"))
      THEN {"exclude_gov_edu"} ELSE {})
     \cup (IF it.neg THEN {"negative_keyword"} ELSE {})
     \cup (IF cf.mustContainImages /\ ~it.images
          THEN {"not_enough_images"} ELSE {})
     \cup (IF cf.requireEmail /\ ~it.email THEN {"missing_email"} ELSE {})
     \cup (IF cf.avoidDuplicates /\ DomainOf(it.link) \in domains
          THEN {"duplicate_domain"} ELSE {})

\* The candidate loop from result k on.  acc: the domains seen, the count
\* of results with enough images, the candidates so far.
RECURSIVE candidateLoop(_, _, _, _)
candidateLoop(cf, list, k, acc) ==
  IF k > Len(list) THEN acc
  ELSE LET it      == list[k]
           reasons == reasonsOf(cf, it, acc.existingDomains)
           domain  == DomainOf(it.link)
       IN candidateLoop(cf, list, k + 1,
            [existingDomains |->
               IF "duplicate_domain" \notin reasons
                  /\ domain \notin acc.existingDomains
               THEN acc.existingDomains \cup {domain}
               ELSE acc.existingDomains,
             imageOkCount |->
               IF cf.mustContainImages /\ it.images
               THEN acc.imageOkCount + 1 ELSE acc.imageOkCount,
             candidates |->
               Append(acc.candidates,
                      [item |-> it, domain |-> domain,
                       filteredDetails |-> reasons])])

\* The candidates of one keyword, after the waiver of the image reason.
filterKeyword(cf, existing, list) ==
  LET looped == candidateLoop(cf, list, 1,
                  [existingDomains |-> existingDomainsOf(existing),
                   imageOkCount |-> 0, candidates |-> << >>])
  IN IF cf.mustContainImages /\ looped.imageOkCount = 0
     THEN [k \in DOMAIN looped.candidates |->
             [looped.candidates[k] EXCEPT
                !.filteredDetails = @ \ {"not_enough_images"}]]
     ELSE looped.candidates

NoConfig  == [none |-> TRUE]
NoOutcome == [none |-> TRUE]

FilterIdle ==
  /\ config = NoConfig
  /\ leadsTable = << >>
  /\ originalResults = << >>
  /\ candidates = NoOutcome
  /\ invocations = << >>

\* No pipeline request is in flight.  The locals: the keyword and page
\* reached, the links gathered (seenUrls), the accepted candidates left to
\* persist (deduped), the file read (server.js), savedLeads.length, the
\* per-keyword results, serpPagesToUse; history: the rows added, the
\* creations tried and refused for the keyword, the accepted count, what the
\* last step did, the serpPages of the body and of the settings, the offsets
\* requested and the answers got for the keyword, which request of a
\* sequence this is and the results of the one before.
NoPipe ==
  [pc |-> "idle", status |-> "none", kw |-> 0, page |-> 0, fetched |-> {},
   queue |-> << >>, list |-> {}, saved |-> 0, results |-> << >>,
   added |-> {}, tried |-> 0, conflicts |-> 0, passed |-> 0, last |-> "none",
   pages |-> 0, bodyPages |-> 0, settingPages |-> 0, starts |-> << >>,
   answers |-> << >>, run |-> 0, first |-> << >>]

FnIdle == TimeIdle /\ FilterIdle /\ pipe = NoPipe

\* ---------------------------------------------------------------- Init
Init ==
  /\ impl \in {"ts", "js"}
  /\ now = 0
  /\ schedules = [i \in Ids |-> NoRow]
  /\ nextId = 1
  /\ registeredTasks = [i \in Ids |-> 0]
  /\ timers = [h \in Handles |-> NoTimer]
  /\ runs = EmptyBag
  /\ reqs = EmptyBag
  /\ boot = "load"
  /\ bootList = [i \in Ids |-> NoRow]
  /\ lostOutcome = [i \in Ids |-> FALSE]
  /\ deleteDone = [i \in Ids |-> FALSE]
  /\ ev = [kind |-> "init"]
  /\ leads = {}
  /\ nextLead = 1
  /\ leadReqs = EmptyBag
  /\ leadEv = [kind |-> "init"]
  /\ FnIdle

Step == [kind |-> "step"]

\* The clock advances.
Tick ==
  /\ now < MaxTime
  /\ now' = now + 1
  /\ ev' = Step
  /\ UNCHANGED <<fnVars, leadVars, impl, schedules, nextId, registeredTasks, timers, runs, reqs,
                 boot, bootList, lostOutcome, deleteDone>>

\* A live cron task fires and its callback runs to its first await.
Fire(h) ==
  /\ timers[h].live
  /\ BagCardinality(runs (+) Callback(timers[h])) <= MaxRuns
  /\ runs' = runs (+) Callback(timers[h])
  /\ ev' = [kind |-> "fire", id |-> timers[h].id,
            future |-> timers[h].enabledAt > now]
  /\ UNCHANGED <<fnVars, leadVars, impl, now, schedules, nextId, registeredTasks, timers, reqs,
                 boot, bootList, lostOutcome, deleteDone>>

\* One await of a trigger callback completes.  ok: the storage call is
\* accepted (else it throws); resp: the answer to the loopback POST.
RunEnd(r, outcome, stored) ==
  [kind |-> "runEnd", id |-> r.id, outcome |-> outcome, stored |-> stored,
   clean |-> r.clean /\ stored, cfg |-> r.cfg, pended |-> r.pended]

ToCatch(r, clean) ==
  [r EXCEPT !.pc = "error", !.at = Unset,
            !.next = calculateNextRun(r, now), !.clean = clean]

RunStep(r, ok, resp) ==
  /\ r \in BagToSet(runs)
  /\ LET rest == runs (-) SetToBag({r}) IN
     CASE r.pc = "pending" ->
            /\ resp = "ok"
            /\ schedules' =
                 IF ok THEN markPending(schedules, r) ELSE schedules
            /\ LET wrote == schedules'[r.id].exists =>
                              /\ schedules'[r.id].lastRunStatus = "pending"
                              /\ schedules'[r.id].lastRunAt = r.at
                   p == [r EXCEPT !.pended = ok /\ wrote]
               IN runs' = rest (+) SetToBag({
                    IF ~ok THEN ToCatch(p, FALSE)
                    ELSE IF ~r.cfg THEN ToCatch(p, r.clean)
                    ELSE [p EXCEPT !.pc = "call", !.at = Unset]})
            /\ ev' = Step
            /\ UNCHANGED lostOutcome
       [] r.pc = "call" ->
            /\ ok
            /\ resp \in HttpPost(IF impl = "ts" THEN PostRoutesTs ELSE PostRoutesJs,
                                 IF impl = "ts" THEN SearchPathTs ELSE SearchPathJs)
            /\ IF impl = "ts"
               THEN /\ runs' = rest (+) SetToBag({
                         IF resp = "ok"
                         THEN [r EXCEPT !.pc = "success",
                                        !.next = calculateNextRun(r, now)]
                         ELSE ToCatch(r, r.clean /\ resp # "fail")})
                    /\ ev' = Step
               ELSE /\ runs' = rest
                    /\ ev' = [kind |-> "runEnd", id |-> r.id,
                              outcome |-> IF resp = "ok" THEN "success" ELSE "error",
                              stored |-> FALSE, clean |-> resp = "ok",
                              cfg |-> r.cfg, pended |-> FALSE]
            /\ UNCHANGED <<schedules, lostOutcome>>
       [] r.pc = "success" ->
            /\ resp = "ok"
            /\ IF ok
               THEN /\ schedules' = markOutcome(schedules, r, "success")
                    /\ runs' = rest
                    /\ ev' = RunEnd(r, "success", TRUE)
               ELSE /\ schedules' = schedules
                    /\ runs' = rest (+) SetToBag({ToCatch(r, FALSE)})
                    /\ ev' = Step
            /\ UNCHANGED lostOutcome
       [] r.pc = "error" ->
            /\ resp = "ok"
            /\ schedules' =
                 IF ok THEN markOutcome(schedules, r, "error") ELSE schedules
            /\ runs' = rest
            /\ lostOutcome' = IF ok THEN lostOutcome
                              ELSE [lostOutcome EXCEPT ![r.id] = TRUE]
            /\ ev' = RunEnd(r, "error", ok)
  /\ UNCHANGED <<fnVars, leadVars, impl, now, nextId, registeredTasks, timers, reqs, boot,
                 bootList, deleteDone>>

\* ------------------------------------------------ schedule API requests
Known == 1..(nextId - 1)

Sent(q)     == reqs (+) SetToBag({q})
Moved(q, p) == (reqs (-) SetToBag({q})) (+) SetToBag({p})
Ended(q)    == reqs (-) SetToBag({q})

SetNextRun(db, i) ==
  updateSchedule(db, i,
    [s \in {db[i]} |-> [s EXCEPT !.nextRunAt = calculateNextRun(s, now)]])

\* POST /api/schedules of routes.ts, to the end of storage.createSchedule.
TsCreate(body) ==
  /\ impl = "ts"
  /\ nextId \in Ids
  /\ BagCardinality(reqs) < MaxInFlight
  /\ schedules' = [schedules EXCEPT ![nextId] = NewRow(nextId, body)]
  /\ nextId' = nextId + 1
  /\ reqs' = Sent([kind |-> "create", id |-> nextId, pc |-> "read1",
                   row |-> Snapshot(NewRow(nextId, body))])
  /\ ev' = Step
  /\ UNCHANGED <<fnVars, leadVars, impl, now, registeredTasks, timers, runs, boot, bootList,
                 lostOutcome, deleteDone>>

\* PATCH /api/schedules/:id of routes.ts, to the end of its first
\* storage.updateSchedule (no row: 404, nothing changes).
TsPatch(i, body) ==
  /\ impl = "ts"
  /\ i \in Known
  /\ schedules[i].exists
  /\ BagCardinality(reqs) < MaxInFlight
  /\ schedules' = [schedules EXCEPT ![i] = ApplyPatch(schedules[i], body)]
  /\ reqs' = Sent([kind |-> "patch", id |-> i, pc |-> "read1", row |-> NoRow])
  /\ ev' = Step
  /\ UNCHANGED <<fnVars, leadVars, impl, now, nextId, registeredTasks, timers, runs, boot,
                 bootList, lostOutcome, deleteDone>>

\* DELETE /api/schedules/:id of routes.ts, to the end of storage.deleteSchedule
\* (no row: 404, nothing changes).
TsDelete(i) ==
  /\ impl = "ts"
  /\ i \in Known
  /\ schedules[i].exists
  /\ BagCardinality(reqs) < MaxInFlight
  /\ schedules' = [schedules EXCEPT ![i] = NoRow]
  /\ reqs' = Sent([kind |-> "delete", id |-> i, pc |-> "unreg", row |-> NoRow])
  /\ ev' = Step
  /\ UNCHANGED <<fnVars, leadVars, impl, now, nextId, registeredTasks, timers, runs, boot,
                 bootList, lostOutcome, deleteDone>>

\* The next await of a routes.ts handler completes, or its last
\* continuation runs.  ok: the storage call is accepted (else it throws).
TsReqStep(q, ok) ==
  /\ impl = "ts"
  /\ q \in BagToSet(reqs)
  /\ CASE q.pc = "read1" ->
            \* saved / refreshed = await storage.getSchedule(id)
            /\ reqs' = IF ~ok THEN Ended(q)
                       ELSE IF schedules[q.id].exists
                            THEN Moved(q, [q EXCEPT !.pc = "upd"])
                       ELSE IF q.kind = "create"
                            THEN Moved(q, [q EXCEPT !.pc = "reg"])
                       ELSE Ended(q)
            /\ ev' = Step
            /\ UNCHANGED <<schedules, registeredTasks, timers, deleteDone>>
       [] q.pc = "upd" ->
            \* try { await storage.updateSchedule(id, {nextRunAt}) } catch {}
            /\ schedules' = IF ok THEN SetNextRun(schedules, q.id) ELSE schedules
            /\ reqs' = Moved(q, [q EXCEPT !.pc = "read2"])
            /\ ev' = Step
            /\ UNCHANGED <<registeredTasks, timers, deleteDone>>
       [] q.pc = "read2" ->
            \* final / finalRefreshed = await storage.getSchedule(id)
            /\ reqs' = IF ok
                       THEN Moved(q, [q EXCEPT !.pc = "reg",
                                               !.row = Snapshot(schedules[q.id])])
                       ELSE Ended(q)
            /\ ev' = Step
            /\ UNCHANGED <<schedules, registeredTasks, timers, deleteDone>>
       [] q.pc = "reg" ->
            \* if (final) registerSchedule(final) / refreshSchedule(finalRefreshed)
            /\ ok
            /\ LET before == IF q.kind = "patch" /\ q.row.exists
                             THEN unregisterSchedule(q.id, Registry)
                             ELSE Registry
                   after  == IF q.row.exists
                             THEN registerSchedule(q.row, before) ELSE before
               IN /\ CanRegister(before)
                  /\ registeredTasks' = after.tasks
                  /\ timers' = after.timers
                  /\ ev' = [kind |-> "register",
                            regs |-> IF q.row.exists
                                     THEN {RegCall(q.row, before)} ELSE {}]
            /\ reqs' = Ended(q)
            /\ UNCHANGED <<schedules, deleteDone>>
       [] q.pc = "unreg" ->
            \* unregisterSchedule(req.params.id); res.status(204)
            /\ ok
            /\ LET after == unregisterSchedule(q.id, Registry)
               IN /\ registeredTasks' = after.tasks
                  /\ timers' = after.timers
            /\ deleteDone' = [deleteDone EXCEPT ![q.id] = TRUE]
            /\ reqs' = Ended(q)
            /\ ev' = Step
            /\ UNCHANGED schedules
  /\ UNCHANGED <<fnVars, leadVars, impl, now, nextId, runs, boot, bootList, lostOutcome>>

\* readSchedules / writeSchedules of server.js: the whole file at once.
readSchedules == schedules

\* POST /api/schedules of server.js, to the end of readSchedules.
JsCreate(body) ==
  /\ impl = "js"
  /\ nextId \in Ids
  /\ BagCardinality(reqs) < MaxInFlight
  /\ nextId' = nextId + 1
  /\ reqs' = Sent([kind |-> "create", id |-> nextId, pc |-> "write",
                   row |-> Snapshot(NewRow(nextId, body)),
                   list |-> [readSchedules EXCEPT ![nextId] = NewRow(nextId, body)]])
  /\ ev' = Step
  /\ UNCHANGED <<fnVars, leadVars, impl, now, schedules, registeredTasks, timers, runs, boot,
                 bootList, lostOutcome, deleteDone>>

\* PATCH /api/schedules/:id of server.js, to the end of readSchedules
\* (id not in the file: 404, nothing changes).
JsPatch(i, body) ==
  /\ impl = "js"
  /\ i \in Known
  /\ readSchedules[i].exists
  /\ BagCardinality(reqs) < MaxInFlight
  /\ LET updated == ApplyPatch(readSchedules[i], body) IN
     reqs' = Sent([kind |-> "patch", id |-> i, pc |-> "write",
                   row |-> Snapshot(updated),
                   list |-> [readSchedules EXCEPT ![i] = updated]])
  /\ ev' = Step
  /\ UNCHANGED <<fnVars, leadVars, impl, now, schedules, nextId, registeredTasks, timers, runs,
                 boot, bootList, lostOutcome, deleteDone>>

\* DELETE /api/schedules/:id of server.js, to the end of readSchedules
\* (id not in the file: 404, nothing changes).
JsDelete(i) ==
  /\ impl = "js"
  /\ i \in Known
  /\ readSchedules[i].exists
  /\ BagCardinality(reqs) < MaxInFlight
  /\ reqs' = Sent([kind |-> "delete", id |-> i, pc |-> "write", row |-> NoRow,
                   list |-> [readSchedules EXCEPT ![i] = NoRow]])
  /\ ev' = Step
  /\ UNCHANGED <<fnVars, leadVars, impl, now, schedules, nextId, registeredTasks, timers, runs,
                 boot, bootList, lostOutcome, deleteDone>>

\* The await of writeSchedules of a server.js handler completes, or its
\* continuation runs.  ok: the write is done (else it throws: 500).
JsReqStep(q, ok) ==
  /\ impl = "js"
  /\ q \in BagToSet(reqs)
  /\ CASE q.pc = "write" ->
            /\ schedules' = IF ok THEN q.list ELSE schedules
            /\ reqs' = IF ok
                       THEN Moved(q, [q EXCEPT !.pc = "reg",
                                               !.list = [i \in Ids |-> NoRow]])
                       ELSE Ended(q)
            /\ ev' = Step
            /\ UNCHANGED <<registeredTasks, timers, deleteDone>>
       [] q.pc = "reg" ->
            \* create: registerSchedule(schedule)
            \* patch:  unregisterSchedule(id); registerSchedule(updated)
            \* delete: unregisterSchedule(id)
            /\ ok
            /\ LET before == IF q.kind = "create" THEN Registry
                             ELSE unregisterSchedule(q.id, Registry)
                   after  == IF q.kind = "delete" THEN before
                             ELSE registerScheduleJs(q.row, before)
               IN /\ q.kind # "delete" => CanRegister(unregisterSchedule(q.id, before))
                  /\ registeredTasks' = after.tasks
                  /\ timers' = after.timers
                  /\ ev' = IF q.kind = "delete" THEN Step
                           ELSE [kind |-> "register",
                                 regs |-> {RegCall(q.row, before)}]
            /\ deleteDone' = IF q.kind = "delete"
                             THEN [deleteDone EXCEPT ![q.id] = TRUE]
                             ELSE deleteDone
            /\ reqs' = Ended(q)
            /\ UNCHANGED schedules
  /\ UNCHANGED <<fnVars, leadVars, impl, now, nextId, runs, boot, bootList, lostOutcome>>

\* ------------------------------------------------------------ startup
\* registerSchedule for every schedule of the list, in the order the load
\* returned them, with the register calls each made.
\* Variant of the startup loop that ends at the first schedule whose
\* registration fails.
RECURSIVE RegisterAllAbort(_, _, _)
RegisterAllAbort(list, todo, acc) ==
  IF todo = {} THEN acc
  ELSE LET i == IF impl = "ts"
                THEN CHOOSE x \in todo : \A y \in todo : x >= y
                ELSE CHOOSE x \in todo : \A y \in todo : x <= y
           out == [reg  |-> Register(list[i], acc.reg),
                   regs |-> acc.regs \cup {RegCall(list[i], acc.reg)}]
       IN IF list[i].isEnabled /\ ~list[i].cronOk THEN out
          ELSE RegisterAllAbort(list, todo \ {i}, out)

RECURSIVE RegisterAll(_, _, _)
RegisterAll(list, todo, acc) ==
  IF todo = {} THEN acc
  ELSE LET i == IF impl = "ts"
                THEN CHOOSE x \in todo : \A y \in todo : x >= y
                ELSE CHOOSE x \in todo : \A y \in todo : x <= y
       IN RegisterAll(list, todo \ {i},
            [reg  |-> Register(list[i], acc.reg),
             regs |-> acc.regs \cup {RegCall(list[i], acc.reg)}])

\* initializeScheduler / refreshAllSchedulesOnStartup: the load.
BootLoad(ok) ==
  /\ boot = "load"
  /\ boot' = IF ok \/ impl = "js" THEN "register" ELSE "done"
  /\ bootList' = IF ok THEN [i \in DOMAIN schedules |-> Snapshot(schedules[i])]
                  ELSE bootList
  /\ ev' = Step
  /\ UNCHANGED <<fnVars, leadVars, impl, now, schedules, nextId, registeredTasks, timers, runs,
                 reqs, lostOutcome, deleteDone>>

\* initializeScheduler / refreshAllSchedulesOnStartup: the loop.
BootRegister ==
  /\ boot = "register"
  /\ LET todo == {i \in DOMAIN bootList : bootList[i].exists}
         out  == RegisterAll(bootList, todo, [reg |-> Registry, regs |-> {}])
     IN /\ Cardinality(FreeHandles(Registry)) >= Cardinality(todo)
        /\ registeredTasks' = out.reg.tasks
        /\ timers' = out.reg.timers
        /\ ev' = [kind |-> "register", regs |-> out.regs]
  /\ boot' = "done"
  /\ bootList' = [i \in DOMAIN bootList |-> NoRow]
  /\ UNCHANGED <<fnVars, leadVars, impl, now, schedules, nextId, runs, reqs, lostOutcome,
                 deleteDone>>

\* ---------------------------------------------------------------- Next
Next ==
  \/ Tick
  \/ \E body \in CreateBodies : TsCreate(body)
  \/ \E i \in Ids, body \in PatchBodies : TsPatch(i, body)
  \/ \E i \in Ids : TsDelete(i)
  \/ \E q \in BagToSet(reqs), ok \in BOOLEAN : TsReqStep(q, ok)
  \/ \E body \in CreateBodies : JsCreate(body)
  \/ \E i \in Ids, body \in PatchBodies : JsPatch(i, body)
  \/ \E i \in Ids : JsDelete(i)
  \/ \E q \in BagToSet(reqs), ok \in BOOLEAN : JsReqStep(q, ok)
  \/ \E ok \in BOOLEAN : BootLoad(ok)
  \/ BootRegister

Spec == Init /\ [][Next]_vars

\* ------------------------------------------------ the run state machine
\* Triggers firing and runs in progress while the schedule is edited and
\* deleted.  It starts in the states right after POST /api/schedules has
\* run to its end at instant 0 with nothing else in flight: one schedule
\* stored, its nextRunAt set (routes.ts), register called once.
EmptyRegistry ==
  [tasks |-> [i \in Ids |-> 0], timers |-> [h \in Handles |-> NoTimer]]

RunInit ==
  /\ impl \in {"ts", "js"}
  /\ now = 0
  /\ \E body \in CreateBodies :
       LET row == IF impl = "ts"
                  THEN SetNextRun([i \in Ids |-> NewRow(i, body)], 1)[1]
                  ELSE NewRow(1, body)
           reg == Register(Snapshot(row), EmptyRegistry)
       IN /\ schedules = [i \in Ids |-> IF i = 1 THEN row ELSE NoRow]
          /\ registeredTasks = reg.tasks
          /\ timers = reg.timers
  /\ nextId = 2
  /\ runs = EmptyBag
  /\ reqs = EmptyBag
  /\ boot = "done"
  /\ bootList = [i \in Ids |-> NoRow]
  /\ lostOutcome = [i \in Ids |-> FALSE]
  /\ deleteDone = [i \in Ids |-> FALSE]
  /\ ev = [kind |-> "init"]
  /\ leads = {}
  /\ nextLead = 1
  /\ leadReqs = EmptyBag
  /\ leadEv = [kind |-> "init"]
  /\ FnIdle

RunNext ==
  \/ Tick
  \/ \E h \in Handles : Fire(h)
  \/ \E r \in BagToSet(runs), ok \in BOOLEAN, resp \in {"ok", "fail", "404"} :
       RunStep(r, ok, resp)
  \/ \E i \in Ids, body \in PatchBodies : TsPatch(i, body)
  \/ \E i \in Ids : TsDelete(i)
  \/ \E q \in BagToSet(reqs), ok \in BOOLEAN : TsReqStep(q, ok)
  \/ \E i \in Ids, body \in PatchBodies : JsPatch(i, body)
  \/ \E i \in Ids : JsDelete(i)
  \/ \E q \in BagToSet(reqs), ok \in BOOLEAN : JsReqStep(q, ok)

RunSpec == RunInit /\ [][RunNext]_vars

\* ------------------------------------------------------ process start
\* The process starts with schedules already persisted and an empty
\* registry, and runs its startup load; no request arrives meanwhile.
BootInit ==
  /\ impl \in {"ts", "js"}
  /\ now = 0
  /\ \E stored \in [BootIds -> [exists : BOOLEAN, body : CreateBodies]] :
       schedules = [i \in BootIds |->
                      IF stored[i].exists THEN NewRow(i, stored[i].body)
                      ELSE NoRow]
  /\ nextId = MaxBootSchedules + 1
  /\ registeredTasks = [i \in BootIds |-> 0]
  /\ timers = [h \in Handles |-> NoTimer]
  /\ runs = EmptyBag
  /\ reqs = EmptyBag
  /\ boot = "load"
  /\ bootList = [i \in BootIds |-> NoRow]
  /\ lostOutcome = [i \in BootIds |-> FALSE]
  /\ deleteDone = [i \in BootIds |-> FALSE]
  /\ ev = [kind |-> "init"]
  /\ leads = {}
  /\ nextLead = 1
  /\ leadReqs = EmptyBag
  /\ leadEv = [kind |-> "init"]
  /\ FnIdle

BootNext ==
  \/ Tick
  \/ \E ok \in BOOLEAN : BootLoad(ok)
  \/ BootRegister

BootSpec == BootInit /\ [][BootNext]_vars

\* ------------------------------------------------------- lead creation
\* A lead row; of its columns only the identifier, the URL and the review
\* status matter here.
Lead(n, u) == [id |-> n, url |-> u, status |-> "pending_review"]

\* storage.getBloggerLeadByUrl
getBloggerLeadByUrl(db, u) == {l \in db : l.url = u}

\* storage.createBloggerLead on the blogger_leads table, whose url column is
\* declared unique: the insert of a URL the table holds is refused.
createBloggerLead(db, n, u) ==
  IF getBloggerLeadByUrl(db, u) # {}
  THEN [ok |-> FALSE, db |-> db]
  ELSE [ok |-> TRUE, db |-> db \cup {Lead(n, u)}]

\* leads.push(newLead) of server.js: the list the handler read, plus the lead.
pushLead(list, n, u) == list \cup {Lead(n, u)}

LeadSent(q)  == leadReqs (+) SetToBag({q})
LeadEnded(q) == leadReqs (-) SetToBag({q})

\* How an attempt ended: the URL, the answer, whether the store held the
\* URL when the attempt wrote, and whether a row was added.
Answer(q, code, existed, added) ==
  [kind |-> q.kind, url |-> q.url, code |-> code, existed |-> existed,
   added |-> added]

\* POST /api/blogger-leads of routes.ts, to the end of getBloggerLeadByUrl:
\* 409 when the URL exists.
TsLeadPost(u) ==
  /\ impl = "ts"
  /\ BagCardinality(leadReqs) < MaxInFlight
  /\ LET q == [kind |-> "post", url |-> u] IN
     IF getBloggerLeadByUrl(leads, u) # {}
     THEN /\ leadEv' = Answer(q, "409", TRUE, FALSE)
          /\ leadReqs' = leadReqs
     ELSE /\ leadEv' = [kind |-> "step"]
          /\ leadReqs' = LeadSent(q)
  /\ UNCHANGED <<leads, nextLead>>
  /\ UNCHANGED <<fnVars, impl, now, schedules, nextId, registeredTasks, timers, runs,
                 reqs, boot, bootList, lostOutcome, deleteDone, ev>>

\* The pipeline of index.ts reaches storage.createBloggerLead for an
\* accepted candidate (inside its try/catch).
TsPersist(u) ==
  /\ impl = "ts"
  /\ BagCardinality(leadReqs) < MaxInFlight
  /\ leadReqs' = LeadSent([kind |-> "persist", url |-> u])
  /\ leadEv' = [kind |-> "step"]
  /\ UNCHANGED <<leads, nextLead>>
  /\ UNCHANGED <<fnVars, impl, now, schedules, nextId, registeredTasks, timers, runs,
                 reqs, boot, bootList, lostOutcome, deleteDone, ev>>

\* storage.createBloggerLead takes effect.  ok: the store is up (else the
\* call throws); a refused insert throws too.  The route answers a throw
\* with 500, the pipeline logs it and goes on.
TsLeadInsert(q, ok) ==
  /\ impl = "ts"
  /\ q \in BagToSet(leadReqs)
  /\ nextLead <= MaxLeads
  /\ LET res == createBloggerLead(leads, nextLead, q.url)
         existed == getBloggerLeadByUrl(leads, q.url) # {}
     IN IF ok /\ res.ok
        THEN /\ leads' = res.db
             /\ nextLead' = nextLead + 1
             /\ leadEv' = Answer(q, IF q.kind = "post" THEN "201" ELSE "saved",
                                 existed, TRUE)
        ELSE /\ UNCHANGED <<leads, nextLead>>
             /\ leadEv' = Answer(q, IF q.kind = "post" THEN "500" ELSE "skipped",
                                 existed, FALSE)
  /\ leadReqs' = LeadEnded(q)
  /\ UNCHANGED <<fnVars, impl, now, schedules, nextId, registeredTasks, timers, runs,
                 reqs, boot, bootList, lostOutcome, deleteDone, ev>>

\* readLeads of server.js: the whole file.
readLeads == leads

\* POST /api/blogger-leads (kind "post") or saveLeadsFromSerp for one
\* accepted candidate (kind "persist") of server.js, to the end of readLeads.
JsLeadRead(kind, u) ==
  /\ impl = "js"
  /\ BagCardinality(leadReqs) < MaxInFlight
  /\ leadReqs' = LeadSent([kind |-> kind, url |-> u, list |-> readLeads])
  /\ leadEv' = [kind |-> "step"]
  /\ UNCHANGED <<leads, nextLead>>
  /\ UNCHANGED <<fnVars, impl, now, schedules, nextId, registeredTasks, timers, runs,
                 reqs, boot, bootList, lostOutcome, deleteDone, ev>>

\* writeLeads of server.js takes effect: the file becomes the list read
\* plus the new lead.  ok: the write is done (else it throws: 500).
JsLeadWrite(q, ok) ==
  /\ impl = "js"
  /\ q \in BagToSet(leadReqs)
  /\ nextLead <= MaxLeads
  /\ LET existed == getBloggerLeadByUrl(leads, q.url) # {} IN
     IF ok
     THEN /\ leads' = pushLead(q.list, nextLead, q.url)
          /\ nextLead' = nextLead + 1
          /\ leadEv' = Answer(q, IF q.kind = "post" THEN "201" ELSE "saved",
                              existed, TRUE)
     ELSE /\ UNCHANGED <<leads, nextLead>>
          /\ leadEv' = Answer(q, "500", existed, FALSE)
  /\ leadReqs' = LeadEnded(q)
  /\ UNCHANGED <<fnVars, impl, now, schedules, nextId, registeredTasks, timers, runs,
                 reqs, boot, bootList, lostOutcome, deleteDone, ev>>

LeadNext ==
  \/ \E u \in Urls : TsLeadPost(u)
  \/ \E u \in Urls : TsPersist(u)
  \/ \E q \in BagToSet(leadReqs), ok \in BOOLEAN : TsLeadInsert(q, ok)
  \/ \E kind \in {"post", "persist"}, u \in Urls : JsLeadRead(kind, u)
  \/ \E q \in BagToSet(leadReqs), ok \in BOOLEAN : JsLeadWrite(q, ok)

LeadSpec == Init /\ [][LeadNext]_vars

\* ------------------------------------------------- functions of timing
schedVars == <<impl, now, schedules, nextId, registeredTasks, timers, runs,
               reqs, boot, bootList, lostOutcome, deleteDone, ev>>

\* Nothing is scheduled, stored or in flight.
Quiet ==
  /\ now = 0
  /\ schedules = [i \in Ids |-> NoRow]
  /\ nextId = 1
  /\ registeredTasks = [i \in Ids |-> 0]
  /\ timers = [h \in Handles |-> NoTimer]
  /\ runs = EmptyBag
  /\ reqs = EmptyBag
  /\ boot = "done"
  /\ bootList = [i \in Ids |-> NoRow]
  /\ lostOutcome = [i \in Ids |-> FALSE]
  /\ deleteDone = [i \in Ids |-> FALSE]
  /\ ev = [kind |-> "init"]
  /\ leads = {}
  /\ nextLead = 1
  /\ leadReqs = EmptyBag
  /\ leadEv = [kind |-> "init"]
  /\ pipe = NoPipe

\* registerSchedule is about to translate the timing of one schedule.
CronInit ==
  /\ Quiet
  /\ impl \in {"ts", "js"}
  /\ sched \in Timings
  /\ clock = NoInstant
  /\ cronExpr = NoExpr
  /\ nextRun = NoNextRun
  /\ FilterIdle

\* const cronExpression = toCronExpression(schedule)
Translate ==
  /\ cronExpr = NoExpr
  /\ cronExpr' = IF impl = "ts" THEN toCronExpression(sched)
                 ELSE toCronExpressionJs(sched)
  /\ UNCHANGED <<sched, clock, nextRun, filterVars, pipe>>
  /\ UNCHANGED <<schedVars, leadVars>>

CronNext == Translate

CronSpec == CronInit /\ [][CronNext]_vars

\* ---- the timing fields a create request may carry
\* Bodies of POST /api/schedules: each field absent (Unset; "unset" for the
\* frequency), at an end of its range, or just past it.
ScheduleBodies ==
  [frequency : Frequencies, hour : {Unset, 0, 23, 24},
   minute : {Unset, 0, 59, 60}, dayOfWeek : {Unset, 0, 6, 7},
   dayOfMonth : {Unset, 1, 31, 32}]

\* insertScheduleSchema.parse: frequency and hour are required columns,
\* minute has a default, dayOfWeek and dayOfMonth are optional and range
\* checked.
insertScheduleSchema(b) ==
  /\ b.frequency # "unset"
  /\ b.hour # Unset
  /\ b.dayOfWeek = Unset \/ b.dayOfWeek \in 0..6
  /\ b.dayOfMonth = Unset \/ b.dayOfMonth \in 1..31

\* The row storage.createSchedule gives back: the minute defaults to 0.
createSchedule(b) == [b EXCEPT !.minute = Coalesce(@, 0)]

\* The schedule object POST /api/schedules of server.js builds.
scheduleJs(b) ==
  [frequency |-> IF b.frequency = "unset" THEN "daily" ELSE b.frequency,
   hour |-> Coalesce(b.hour, 0), minute |-> Coalesce(b.minute, 0),
   dayOfWeek |-> b.dayOfWeek, dayOfMonth |-> b.dayOfMonth]

Rejected == [rejected |-> TRUE]

\* A create request is about to be handled.
BodyInit ==
  /\ Quiet
  /\ impl \in {"ts", "js"}
  /\ sched \in ScheduleBodies
  /\ clock = NoInstant
  /\ cronExpr = NoExpr
  /\ nextRun = NoNextRun
  /\ FilterIdle

\* POST /api/schedules from the body to registerSchedule: sched becomes the
\* schedule handed to registerSchedule, cronExpr the expression registered;
\* routes.ts answers 400 when the parse throws.
CreateRoute ==
  /\ cronExpr = NoExpr
  /\ IF impl = "ts"
     THEN IF insertScheduleSchema(sched)
          THEN /\ sched' = createSchedule(sched)
               /\ cronExpr' = toCronExpression(sched')
          ELSE /\ sched' = sched
               /\ cronExpr' = Rejected
     ELSE /\ sched' = scheduleJs(sched)
          /\ cronExpr' = toCronExpressionJs(sched')
  /\ UNCHANGED <<clock, nextRun, filterVars, pipe>>
  /\ UNCHANGED <<schedVars, leadVars>>

BodyNext == CreateRoute

BodySpec == BodyInit /\ [][BodyNext]_vars

\* scheduler.ts is about to compute the next run of one schedule at some
\* instant.
DateInit ==
  /\ Quiet
  /\ impl = "ts"
  /\ sched \in {t \in Timings : t.hour # Unset /\ t.minute # Unset}
  /\ clock \in Instants
  /\ cronExpr = NoExpr
  /\ nextRun = NoNextRun
  /\ FilterIdle

\* nextRunAt: calculateNextRun(schedule), at one of the places that write it.
ComputeNextRun(site) ==
  /\ nextRun = NoNextRun
  /\ nextRun' = [site |-> site, at |-> calculateNextRunAt(sched, clock)]
  /\ UNCHANGED <<sched, clock, cronExpr, filterVars, pipe>>
  /\ UNCHANGED <<schedVars, leadVars>>

DateNext == \E site \in NextRunSites : ComputeNextRun(site)

DateSpec == DateInit /\ [][DateNext]_vars

\* -------------------------------------------- filtering of one keyword
\* POST /api/search/test of index.ts has read the leads and merged the
\* pages of one keyword.
FilterInit ==
  /\ Quiet
  /\ impl = "ts"
  /\ TimeIdle
  /\ config \in Configs
  /\ leadsTable \in LeadLists(MaxStored)
  /\ originalResults \in ItemLists(MaxCandidates)
  /\ candidates = NoOutcome
  /\ invocations = << >>

\* The candidate loop and the waiver for the keyword.
FilterKeyword ==
  /\ candidates = NoOutcome
  /\ candidates' = [list |-> filterKeyword(config,
                                getBloggerLeads(leadsTable, LeadsReadLimit),
                                originalResults),
                    idx |-> 0, counted |-> {}, belowMinWordsUrls |-> {},
                    savedLeads |-> << >>]
  /\ UNCHANGED <<config, leadsTable, originalResults, invocations>>
  /\ UNCHANGED <<schedVars, leadVars, timeVars, pipe>>

FilterNext == FilterKeyword

FilterSpec == FilterInit /\ [][FilterNext]_vars

\* --------------------------------------- the persist loop and minWords
\* The filter settings together with minWords of the request body (0 when
\* the body has none).
WordConfigs == {cf @@ [minWords |-> m] : cf \in Configs, m \in {0, 300}}

\* What fetchWordCount answers for a page: null (Unset) when the page cannot
\* be fetched or has no text, the number of words otherwise.
WordCounts == {Unset, 0, 299, 300}

\* deduped: the candidates without a reason.
deduped(list) == SelectSeq(list, LAMBDA c : c.filteredDetails = {})

\* The comparison alone, which an unknown count would pass.
belowMinWordsNumeric(wc, minWords) == wc # Unset /\ wc < minWords

\* wc === null || wc < Number(minWords)
belowMinWords(wc, minWords) == wc = Unset \/ wc < minWords

\* One turn of the persist loop for deduped[idx + 1]: the word count is
\* fetched when minWords > 0, and the row is created unless the count is
\* too low; ok: storage.createBloggerLead returns.
persistTurn(cf, c, wc, ok) ==
  LET item    == deduped(c.list)[c.idx + 1]
      checked == cf.minWords > 0
      low     == checked /\ belowMinWords(wc, cf.minWords)
  IN [c EXCEPT
        !.idx = @ + 1,
        !.counted = IF checked THEN @ \cup {[link |-> item.item.link, wc |-> wc]}
                    ELSE @,
        !.belowMinWordsUrls = IF low THEN @ \cup {item.item.link} ELSE @,
        !.savedLeads = IF ~low /\ ok
                       THEN Append(@, [url |-> item.item.link,
                                       domain |-> item.domain])
                       ELSE @]

\* resultsForResponse: every candidate with its reasons, below_min_words
\* added for the links of belowMinWordsUrls.
resultsForResponse(c) ==
  [k \in DOMAIN c.list |->
     LET fd == c.list[k].filteredDetails \cup
               (IF c.list[k].item.link \in c.belowMinWordsUrls
                THEN {"below_min_words"} ELSE {})
     IN [url |-> c.list[k].item.link, reasons |-> fd,
         status |-> IF fd = {} THEN "passed" ELSE "filtered"]]

\* POST /api/search/test has merged the pages of one keyword; no lead is
\* stored yet.
WordsInit ==
  /\ Quiet
  /\ impl = "ts"
  /\ TimeIdle
  /\ config \in WordConfigs
  /\ leadsTable = << >>
  /\ originalResults \in ItemLists(MaxCandidates)
  /\ candidates = NoOutcome
  /\ invocations = << >>

\* One turn of the persist loop.
PersistTurn(wc, ok) ==
  /\ candidates # NoOutcome
  /\ candidates.idx < Len(deduped(candidates.list))
  /\ candidates' = persistTurn(config, candidates, wc, ok)
  /\ leadsTable' = SubSeq(candidates'.savedLeads,
                          Len(candidates.savedLeads) + 1,
                          Len(candidates'.savedLeads)) \o leadsTable
  /\ UNCHANGED <<config, originalResults, invocations>>
  /\ UNCHANGED <<schedVars, leadVars, timeVars, pipe>>

WordsNext ==
  \/ FilterKeyword
  \/ \E wc \in WordCounts, ok \in BOOLEAN : PersistTurn(wc, ok)

WordsSpec == WordsInit /\ [][WordsNext]_vars

\* ------------------------------------- pipeline requests side by side
\* POST /api/search/test is an async handler: between two of its awaits the
\* server runs other requests, other invocations of the handler included.
\* Each invocation has its own locals: existingLeads (read once, before the
\* keyword loop) and deduped, the candidates left to persist.
Idle == [pc |-> "idle", existingLeads |-> << >>, deduped |-> << >>]

\* Results that pass every filter but the one on domains.
GoodLists ==
  {l \in ItemLists(MaxCandidates) :
     \A k \in DOMAIN l : ~l[k].neg /\ l[k].images /\ l[k].email}

\* storage.createBloggerLead: the url column is unique, the domain column is
\* not; ok: the database answers.
insertLead(table, row, ok) ==
  IF ok /\ \A k \in DOMAIN table : table[k].url # row.url
  THEN <<row>> \o table
  ELSE table

\* Requests are about to arrive; the table holds at most one lead, saved by
\* an earlier request.
RaceInit ==
  /\ Quiet
  /\ impl = "ts"
  /\ TimeIdle
  /\ config \in {cf \in Configs : cf.avoidDuplicates}
  /\ leadsTable \in {<< >>} \cup
                    {<<[url |-> u, domain |-> DomainOf(u)]>> : u \in PageUrls}
  /\ originalResults = << >>
  /\ candidates = NoOutcome
  /\ invocations = [i \in 1..MaxInvocations |-> Idle]

\* await storage.getBloggerLeads(1000), at the start of the request.
InvokeRead(i) ==
  /\ invocations[i].pc = "idle"
  /\ invocations' = [invocations EXCEPT
       ![i] = [@ EXCEPT !.pc = "read",
                        !.existingLeads =
                          getBloggerLeads(leadsTable, LeadsReadLimit)]]
  /\ UNCHANGED <<config, leadsTable, originalResults, candidates>>
  /\ UNCHANGED <<schedVars, leadVars, timeVars, pipe>>

\* The pages of the keyword, the candidate loop and deduped; the awaits in
\* between (search, images, e-mail) touch no lead.
InvokeFilter(i, list) ==
  /\ invocations[i].pc = "read"
  /\ invocations' = [invocations EXCEPT
       ![i] = [@ EXCEPT !.pc = "persist",
                        !.deduped =
                          deduped(filterKeyword(config,
                                    invocations[i].existingLeads, list))]]
  /\ UNCHANGED <<config, leadsTable, originalResults, candidates>>
  /\ UNCHANGED <<schedVars, leadVars, timeVars, pipe>>

\* One turn of the persist loop: await storage.createBloggerLead(insert).
InvokePersist(i, ok) ==
  /\ invocations[i].pc = "persist"
  /\ IF invocations[i].deduped = << >>
     THEN /\ invocations' = [invocations EXCEPT ![i] = [@ EXCEPT !.pc = "done"]]
          /\ UNCHANGED leadsTable
     ELSE LET c == Head(invocations[i].deduped)
          IN /\ leadsTable' = insertLead(leadsTable,
                                [url |-> c.item.link, domain |-> c.domain], ok)
             /\ invocations' = [invocations EXCEPT
                  ![i] = [@ EXCEPT !.deduped = Tail(@)]]
  /\ UNCHANGED <<config, originalResults, candidates>>
  /\ UNCHANGED <<schedVars, leadVars, timeVars, pipe>>

RaceNext ==
  \E i \in 1..MaxInvocations :
    \/ InvokeRead(i)
    \/ \E list \in GoodLists : InvokeFilter(i, list)
    \/ \E ok \in BOOLEAN : InvokePersist(i, ok)

RaceSpec == RaceInit /\ [][RaceNext]_vars

\* ------------------------------------------------- the pipeline request
\* POST /api/search/test of index.ts and of server.js, one step per await.
\* A page answers with the links of the candidates the filters accept.
Statuses == {"pending_review", "approved"}

\* The links in the order the pages gave them.
RECURSIVE inOrder(_)
inOrder(S) ==
  IF S = {} THEN << >>
  ELSE LET first == CHOOSE u \in S : \A v \in S : u <= v
       IN <<first>> \o inOrder(S \ {first})

\* What the keyword reports: passed_count, savedLeadCount; history: the
\* rows added for it, the creations tried and refused.
KeywordResult(p) ==
  [passed_count |-> p.passed, savedLeadCount |-> p.saved, added |-> p.added,
   tried |-> p.tried, conflicts |-> p.conflicts,
   serpRequestsMade |-> Len(p.answers), starts |-> p.starts,
   answers |-> p.answers]

\* serpResultsNum when the settings give none.
serpNum == 10

\* What a request body or the settings say of serpPages: nothing, or a
\* number.
PageCounts == {Unset} \cup 0..MaxPages

\* Number(serpPages || serpPagesFromSettings || 1) of index.ts, serpPages
\* being destructured from the body with the default 1 and
\* serpPagesFromSettings being 1 unless the settings give a number.
serpPagesToUse(body, setting) ==
  LET serpPages             == IF body = Unset THEN 1 ELSE body
      serpPagesFromSettings == IF setting = Unset THEN 1 ELSE setting
  IN IF serpPages # 0 THEN serpPages
     ELSE IF serpPagesFromSettings # 0 THEN serpPagesFromSettings
     ELSE 1

\* The request has read the settings and the existing leads and asks for
\* the first page.  server.js asks for one page per keyword.
PipeStart(body, setting) ==
  /\ pipe = NoPipe
  /\ pipe' = [NoPipe EXCEPT !.pc = "page", !.status = "running", !.kw = 1,
                            !.last = "start", !.run = 1,
                            !.bodyPages = body, !.settingPages = setting,
                            !.pages = IF impl = "ts"
                                      THEN serpPagesToUse(body, setting)
                                      ELSE 1]
  /\ UNCHANGED <<schedVars, leadVars, timeVars, filterVars>>

\* The locals once the accepted candidates of the keyword are known.
toPersist(p, accepted, pc) ==
  [p EXCEPT !.pc = pc, !.queue = inOrder(accepted), !.passed = Cardinality(accepted),
            !.saved = 0, !.added = {}, !.tried = 0, !.conflicts = 0]

\* A page request of index.ts ends, inside its try/catch: a failure is
\* logged and the page loop goes on; after the last page the candidates are
\* filtered.
TsPipePage(ok, res) ==
  /\ impl = "ts"
  /\ pipe.pc = "page"
  /\ LET got   == IF ok THEN pipe.fetched \cup res ELSE pipe.fetched
         start == serpNum * (pipe.page + 1)
         paged == [pipe EXCEPT !.page = @ + 1, !.fetched = got,
                               !.starts = Append(@, start),
                               !.answers = IF ok THEN Append(@, res) ELSE @,
                               !.last = IF ok THEN "page_ok" ELSE "page_failed"]
     IN pipe' = IF paged.page < pipe.pages THEN paged
                ELSE toPersist(paged, got, "persist")
  /\ UNCHANGED <<schedVars, leadVars, timeVars, filterVars>>

\* The one request of a keyword of server.js ends; nothing catches its
\* failure before the handler's catch, which answers 500.
JsPipePage(ok, res) ==
  /\ impl = "js"
  /\ pipe.pc = "page"
  /\ pipe' = IF ok
             THEN toPersist([pipe EXCEPT !.page = @ + 1, !.fetched = res,
                                         !.answers = Append(@, res),
                                         !.last = "page_ok"], res, "read")
             ELSE [pipe EXCEPT !.pc = "done", !.status = "500",
                               !.last = "page_failed"]
  /\ UNCHANGED <<schedVars, leadVars, timeVars, filterVars>>

\* One pass of the persist loop of index.ts where a refused creation
\* counts as saved.
persistOneCounting(p, db, n, ok) ==
  LET res == createBloggerLead(db, n, Head(p.queue))
      did == ok /\ res.ok
  IN [db |-> IF did THEN res.db ELSE db,
      n  |-> IF did THEN n + 1 ELSE n,
      pipe |-> [p EXCEPT !.queue = Tail(@), !.tried = @ + 1,
                         !.saved = IF ok THEN @ + 1 ELSE @,
                         !.added = @ \cup {l.id : l \in
                                      (IF did THEN res.db ELSE db) \ db},
                         !.conflicts = IF ok /\ ~res.ok THEN @ + 1 ELSE @,
                         !.last = IF did THEN "saved"
                                  ELSE IF ok THEN "conflict" ELSE "skipped"]]

\* One pass of the persist loop of index.ts: createBloggerLead in a
\* try/catch; savedLeads gets the row only when the creation returned.
persistOne(p, db, n, ok) ==
  LET res == createBloggerLead(db, n, Head(p.queue))
      did == ok /\ res.ok
  IN [db |-> IF did THEN res.db ELSE db,
      n  |-> IF did THEN n + 1 ELSE n,
      pipe |-> [p EXCEPT !.queue = Tail(@), !.tried = @ + 1,
                         !.saved = IF did THEN @ + 1 ELSE @,
                         !.added = @ \cup {l.id : l \in
                                      (IF did THEN res.db ELSE db) \ db},
                         !.conflicts = IF ok /\ ~res.ok THEN @ + 1 ELSE @,
                         !.last = IF did THEN "saved"
                                  ELSE IF ok THEN "conflict" ELSE "skipped"]]

\* storage.createBloggerLead for the next accepted candidate takes effect.
\* ok: the store is up.
TsPipePersist(ok) ==
  /\ impl = "ts"
  /\ pipe.pc = "persist"
  /\ pipe.queue # << >>
  /\ nextLead <= MaxLeads
  /\ LET out == persistOne(pipe, leads, nextLead, ok)
     IN /\ pipe' = out.pipe
        /\ leads' = out.db
        /\ nextLead' = out.n
  /\ UNCHANGED <<schedVars, leadReqs, leadEv, timeVars, filterVars>>

\* saveLeadsFromSerp of server.js, to the end of readLeads, which gives the
\* empty list when the file cannot be read or parsed.
JsPipeRead(ok) ==
  /\ impl = "js"
  /\ pipe.pc = "read"
  /\ pipe' = [pipe EXCEPT !.pc = "write", !.last = "read",
                          !.list = IF ok THEN readLeads ELSE {}]
  /\ UNCHANGED <<schedVars, leadVars, timeVars, filterVars>>

\* leads.push(...newLeads) of server.js, identifiers from n on.
RECURSIVE pushLeads(_, _, _)
pushLeads(list, n, q) ==
  IF q = << >> THEN list
  ELSE pushLeads(pushLead(list, n, Head(q)), n + 1, Tail(q))

\* writeLeads of saveLeadsFromSerp takes effect: the file becomes the list
\* read plus the new leads.  ok: the write is done (else it throws: 500).
JsPipeWrite(ok) ==
  /\ impl = "js"
  /\ pipe.pc = "write"
  /\ nextLead + Len(pipe.queue) <= MaxLeads + 1
  /\ IF ok
     THEN /\ leads' = pushLeads(pipe.list, nextLead, pipe.queue)
          /\ nextLead' = nextLead + Len(pipe.queue)
          /\ pipe' = [pipe EXCEPT !.pc = "persist", !.queue = << >>,
                                  !.saved = Len(pipe.queue),
                                  !.tried = Len(pipe.queue),
                                  !.added = {l.id : l \in leads' \ pipe.list},
                                  !.last = "written"]
     ELSE /\ UNCHANGED <<leads, nextLead>>
          /\ pipe' = [pipe EXCEPT !.pc = "done", !.status = "500",
                                  !.last = "write_failed"]
  /\ UNCHANGED <<schedVars, leadReqs, leadEv, timeVars, filterVars>>

\* The keyword's result is pushed; the next keyword starts or the request
\* answers 200.
PipeKeywordEnd ==
  /\ pipe.pc = "persist"
  /\ pipe.queue = << >>
  /\ LET ended == [pipe EXCEPT !.results = Append(@, KeywordResult(pipe)),
                               !.last = "keyword"]
     IN pipe' = IF pipe.kw < MaxKeywords
                THEN [ended EXCEPT !.pc = "page", !.kw = @ + 1, !.page = 0,
                                   !.fetched = {}, !.starts = << >>,
                                   !.answers = << >>]
                ELSE [ended EXCEPT !.pc = "done", !.status = "200"]
  /\ UNCHANGED <<schedVars, leadVars, timeVars, filterVars>>

\* updateBloggerLead: the row with the patch merged in.
updateBloggerLead(db, id, st) ==
  {IF l.id = id THEN [l EXCEPT !.status = st] ELSE l : l \in db}

\* PATCH /api/blogger-leads/:id of routes.ts: one UPDATE statement.
TsLeadPatch(id, st) ==
  /\ impl = "ts"
  /\ \E l \in leads : l.id = id /\ l.status # st
  /\ leads' = updateBloggerLead(leads, id, st)
  /\ leadEv' = [kind |-> "patch"]
  /\ UNCHANGED <<nextLead, leadReqs>>
  /\ UNCHANGED <<fnVars, schedVars>>

\* PATCH /api/blogger-leads/:id of server.js, to the end of readLeads; 404
\* when the list read does not hold the id.
JsPatchRead(id, st) ==
  /\ impl = "js"
  /\ BagCardinality(leadReqs) < MaxPatches
  /\ \E l \in leads : l.id = id /\ l.status # st
  /\ leadReqs' = LeadSent([kind |-> "patch", id |-> id, status |-> st,
                           list |-> readLeads])
  /\ leadEv' = [kind |-> "step"]
  /\ UNCHANGED <<leads, nextLead>>
  /\ UNCHANGED <<fnVars, schedVars>>

\* writeLeads of the PATCH takes effect: the file becomes the list read
\* with the lead merged.
JsPatchWrite(q) ==
  /\ impl = "js"
  /\ q \in BagToSet(leadReqs)
  /\ q.kind = "patch"
  /\ leads' = updateBloggerLead(q.list, q.id, q.status)
  /\ leadReqs' = LeadEnded(q)
  /\ leadEv' = [kind |-> "patch"]
  /\ UNCHANGED nextLead
  /\ UNCHANGED <<fnVars, schedVars>>

\* The table holds no lead or one lead when the request arrives.
PipeInit ==
  /\ impl \in {"ts", "js"}
  /\ now = 0
  /\ schedules = [i \in Ids |-> NoRow]
  /\ nextId = 1
  /\ registeredTasks = [i \in Ids |-> 0]
  /\ timers = [h \in Handles |-> NoTimer]
  /\ runs = EmptyBag
  /\ reqs = EmptyBag
  /\ boot = "done"
  /\ bootList = [i \in Ids |-> NoRow]
  /\ lostOutcome = [i \in Ids |-> FALSE]
  /\ deleteDone = [i \in Ids |-> FALSE]
  /\ ev = [kind |-> "init"]
  /\ \E held \in {{}} \cup {{Lead(1, u)} : u \in Urls} :
       /\ leads = held
       /\ nextLead = Cardinality(held) + 1
  /\ leadReqs = EmptyBag
  /\ leadEv = [kind |-> "init"]
  /\ FnIdle

PipeNext ==
  \/ \E body \in PageCounts, setting \in PageCounts : PipeStart(body, setting)
  \/ \E ok \in BOOLEAN, res \in SUBSET Urls : TsPipePage(ok, res)
  \/ \E ok \in BOOLEAN, res \in SUBSET Urls : JsPipePage(ok, res)
  \/ \E ok \in BOOLEAN : TsPipePersist(ok)
  \/ \E ok \in BOOLEAN : JsPipeRead(ok)
  \/ \E ok \in BOOLEAN : JsPipeWrite(ok)
  \/ PipeKeywordEnd
  \/ \E id \in 1..MaxLeads, st \in Statuses : TsLeadPatch(id, st)
  \/ \E id \in 1..MaxLeads, st \in Statuses : JsPatchRead(id, st)
  \/ \E q \in BagToSet(leadReqs) : JsPatchWrite(q)

PipeSpec == PipeInit /\ [][PipeNext]_vars

\* ------------------------------------------- the same request, twice
\* The request has answered 200 and is sent again, with the same body and
\* settings.
PipeAgain ==
  /\ pipe.pc = "done"
  /\ pipe.status = "200"
  /\ pipe.run = 1
  /\ pipe' = [NoPipe EXCEPT !.pc = "page", !.status = "running", !.kw = 1,
                            !.last = "start", !.run = 2,
                            !.bodyPages = pipe.bodyPages,
                            !.settingPages = pipe.settingPages,
                            !.pages = pipe.pages, !.first = pipe.results]
  /\ UNCHANGED <<schedVars, leadVars, timeVars, filterVars>>

\* The search provider answers the second request as it answered the first.
Replays(res) ==
  (pipe.run = 2 /\ pipe.pc = "page")
    => res = pipe.first[pipe.kw].answers[pipe.page + 1]

\* Two requests in sequence, the provider and the store always answering.
RerunNext ==
  \/ \E body \in PageCounts, setting \in PageCounts : PipeStart(body, setting)
  \/ \E res \in SUBSET Urls : Replays(res) /\ TsPipePage(TRUE, res)
  \/ \E res \in SUBSET Urls : Replays(res) /\ JsPipePage(TRUE, res)
  \/ TsPipePersist(TRUE)
  \/ JsPipeRead(TRUE)
  \/ JsPipeWrite(TRUE)
  \/ PipeKeywordEnd
  \/ PipeAgain

RerunSpec == PipeInit /\ [][RerunNext]_vars

\* ------------------------------------------------------------- claims
\* C1: for each schedule id at most one run is in progress at any time; a
\* fire that arrives while a run of the same schedule has not finished
\* starts no second run.
C1_SingleRun == \A i \in Ids : RunCount(i) <= 1

\* C2: no two persisted leads have the same URL, and a create attempt for
\* a URL that already exists is answered with a conflict (409) and adds no
\* row.
C2_UniqueUrls ==
  /\ \A a, b \in leads : a.url = b.url => a = b
  /\ (leadEv.kind = "post" /\ leadEv.existed) =>
       (leadEv.code = "409" /\ ~leadEv.added)

\* C3: once a DELETE of a schedule id has been answered and no request for
\* that id nor the startup load is still in progress, the registry holds no
\* trigger for the id and no timer of the id is live (so none can fire).
C3_DeleteUnregisters ==
  \A i \in Ids :
    (/\ deleteDone[i]
     /\ \A q \in BagToSet(reqs) : q.id # i
     /\ boot = "done")
    => (registeredTasks[i] = 0 /\ LiveTimers(Registry, i) = {})

\* C4: there is at most one started, non-stopped timer per schedule id, and
\* it is the one the registry map holds.
C4_OneTimerPerId ==
  \A i \in Ids : LiveTimers(Registry, i) \subseteq {registeredTasks[i]}

\* C5: a register call for a schedule with isEnabled = false creates no
\* timer and leaves the registry unchanged.
C5_DisabledNoOp ==
  ev.kind = "register" =>
    \A c \in ev.regs : ~c.isEnabled => ~c.changed

C5_Witness ==
  /\ ev.kind = "register"
  /\ \E c \in ev.regs : ~c.isEnabled /\ ~c.changed
  /\ \E i \in Ids : schedules[i].exists /\ ~schedules[i].isEnabled

\* C6: a register call for an enabled schedule whose enabledAt is strictly
\* later than the instant of the call creates no trigger.
C6_FutureNoTrigger ==
  ev.kind = "register" =>
    \A c \in ev.regs : (c.isEnabled /\ c.future) => ~c.changed

\* C7: a fire of a trigger whose schedule has its enabledAt still in the
\* future is a no-op: no run starts (so no call to the pipeline endpoint is
\* made) and no field of any schedule is written.
C7_FutureFireNoOp ==
  [][(ev'.kind = "fire" /\ ev'.future) =>
       (runs' = runs /\ schedules' = schedules)]_vars

C7_Witness ==
  /\ ev.kind = "fire"
  /\ ev.future
  /\ schedules[ev.id].exists
  /\ schedules[ev.id].isEnabled
  /\ runs = EmptyBag

C10_PermittedFireSucceeds ==
  (/\ ev.kind = "runEnd"
   /\ ev.clean
   /\ ev.cfg
   /\ schedules[ev.id].exists)
  => schedules[ev.id].lastRunStatus = "success"

\* C11: when the startup loop runs on an empty registry, register is
\* called for every schedule the load returned; every such schedule that is
\* enabled, whose enabledAt has passed and whose cron expression is accepted
\* then has exactly one live timer, the one the registry map holds; and a
\* schedule whose registration fails does not keep the others from being
\* registered.
C11_BootstrapRegistersAll ==
  [][(/\ boot = "register"
      /\ boot' = "done"
      /\ \A i \in DOMAIN registeredTasks : registeredTasks[i] = 0
      /\ \A h \in Handles : ~timers[h].live)
     => \A i \in DOMAIN bootList :
          bootList[i].exists =>
            /\ \E c \in ev'.regs : c.id = i
            /\ (/\ schedules[i] # NoRow
                /\ bootList[i].isEnabled
                /\ bootList[i].enabledAt <= now
                /\ bootList[i].cronOk)
               => (/\ registeredTasks'[i] # 0
                   /\ timers'[registeredTasks'[i]].live
                   /\ {h \in Handles : timers'[h].live /\ timers'[h].id = i}
                        = {registeredTasks'[i]})]_vars

C11_Witness ==
  /\ boot = "done"
  /\ ev.kind = "register"
  /\ \E i, j \in DOMAIN schedules :
       /\ schedules[i].exists /\ schedules[i].isEnabled
       /\ schedules[i].enabledAt <= now /\ ~schedules[i].cronOk
       /\ registeredTasks[i] = 0
       /\ schedules[j].exists /\ schedules[j].isEnabled
       /\ schedules[j].enabledAt <= now /\ schedules[j].cronOk
       /\ registeredTasks[j] # 0
       /\ (impl = "ts" => j < i)
       /\ (impl = "js" => i < j)

\* The rule of the schedule's frequency: the instants at which a daily,
\* weekly or monthly schedule is to fire.
RuleFires(s, t) ==
  /\ t.hour = s.hour
  /\ t.minute = s.minute
  /\ s.frequency = "weekly" => t.dayOfWeek = s.dayOfWeek
  /\ s.frequency = "monthly" => t.dayOfMonth = s.dayOfMonth

\* C12: for a daily, weekly or monthly schedule with hour, minute,
\* dayOfWeek and dayOfMonth in range, the trigger built by toCronExpression
\* fires at exactly the instants of the rule: hour:minute every day (daily),
\* on the given weekday only (weekly), on the given day of month only
\* (monthly).
C12_TriggerFollowsRule ==
  (/\ cronExpr # NoExpr
   /\ sched.frequency \in {"daily", "weekly", "monthly"}
   /\ sched.hour # Unset /\ sched.minute # Unset
   /\ sched.dayOfWeek # Unset /\ sched.dayOfMonth # Unset)
  => \A t \in CronInstants : CronMatches(cronExpr, t) <=> RuleFires(sched, t)

C12_Witness ==
  /\ cronExpr # NoExpr
  /\ sched.frequency = "weekly"
  /\ sched.dayOfWeek = 3 /\ sched.hour = 9 /\ sched.minute = 30
  /\ sched.dayOfMonth = 15
  /\ \A t \in CronInstants :
       CronMatches(cronExpr, t) <=>
         (t.dayOfWeek = 3 /\ t.hour = 9 /\ t.minute = 30)

\* C13: for a frequency other than daily, weekly or monthly, toCronExpression
\* returns the daily expression of the schedule's own hour and minute, an
\* absent hour or minute counting as 0.
C13_FallbackIsDaily ==
  (cronExpr # NoExpr /\ sched.frequency \notin {"daily", "weekly", "monthly"})
  => cronExpr = CronExpression(Num(Coalesce(sched.minute, 0)),
                               Num(Coalesce(sched.hour, 0)), Star, Star, Star)

\* C14: every nextRunAt that is written is strictly later than the instant
\* at which it was computed.
C14_NextRunIsLater ==
  nextRun # NoNextRun => Later(nextRun.at, clock)

\* The candidates of the keyword, once filtered.
Filtered == IF candidates = NoOutcome THEN {}
            ELSE {candidates.list[k] : k \in DOMAIN candidates.list}

\* C15: a candidate carries exclude_gov_edu exactly when excludeGovEdu is
\* set and the lower-cased host of its URL contains ".gov" or ".edu",
\* whatever the other settings; a candidate that carries it is not accepted.
C15_GovEduByHost ==
  \A c \in Filtered :
    LET host == toLowerCase(c.item.link.host)
    IN "exclude_gov_edu" \in c.filteredDetails
         <=> (config.excludeGovEdu
              /\ (includes(host, ".gov") \/ includes(host, ".edu")))

\* C16: with avoidDuplicates set, a candidate whose URL is the URL of a
\* lead in the table when the request starts carries duplicate_domain, however
\* many leads the table holds; with avoidDuplicates not set no candidate
\* carries it.
C16_PersistedUrlIsDuplicate ==
  \A c \in Filtered :
    /\ (config.avoidDuplicates
        /\ \E k \in DOMAIN leadsTable : leadsTable[k].url = c.item.link)
       => "duplicate_domain" \in c.filteredDetails
    /\ ~config.avoidDuplicates => "duplicate_domain" \notin c.filteredDetails

\* C17: with mustContainImages set, a candidate with fewer than 3 images
\* and no other reason is accepted exactly when every candidate of the
\* keyword that has no other reason has fewer than 3 images.
C17_ImageWaiver ==
  LET Surviving ==
        {c \in Filtered : c.filteredDetails \ {"not_enough_images"} = {}}
  IN config # NoConfig /\ config.mustContainImages =>
       \A c \in Surviving :
         ~c.item.images =>
           (c.filteredDetails = {} <=> \A d \in Surviving : ~d.item.images)

\* C18: a creation refused because the URL exists does not end the
\* request: the candidates after it are still tried, and each keyword
\* reports as saved the number of rows the request added for it.
C18_ConflictIsSkipped ==
  [][/\ (pipe.pc = "persist" /\ pipe'.last = "conflict" /\ pipe' # pipe)
        => /\ pipe'.status = "running"
           /\ pipe'.queue = Tail(pipe.queue)
     /\ \A k \in DOMAIN pipe'.results :
          /\ pipe'.results[k].savedLeadCount = Cardinality(pipe'.results[k].added)
          /\ pipe'.results[k].tried = pipe'.results[k].passed_count]_vars

\* A creation was refused, the next candidate was saved, and the keyword
\* reported it.
C18_Witness ==
  /\ pipe.last = "keyword"
  /\ LET r == pipe.results[Len(pipe.results)]
     IN /\ r.conflicts > 0
        /\ r.savedLeadCount > 0
        /\ \E l \in leads : l.id \in r.added /\ l.url = MaxUrls

\* C19: a failed page request does not end the request: it goes on with
\* the next page or keyword.
C19_PageFailureGoesOn ==
  [][(pipe' # pipe /\ pipe'.last = "page_failed")
       => pipe'.status = "running"]_vars

\* C20: no step of the pipeline removes a lead or changes a field of
\* one: every row of the table before the step is a row after it.
C20_PipelineKeepsLeads ==
  [][pipe' # pipe => \A l \in leads : l \in leads']_vars

\* C21: a request sent a second time, with the same keywords, settings
\* and search answers, creates no lead: no step of the second request
\* changes the store.
C21_SecondRunAddsNothing ==
  [][(pipe.run = 2 /\ pipe'.run = 2) => leads' = leads]_vars

\* C22: a schedule the create route hands to registerSchedule has a
\* frequency of daily, weekly or monthly, an hour in 0..23, a minute in
\* 0..59, a day of week in 0..6 when weekly and a day of month in 1..31 when
\* monthly.
C22_RegisteredIsWellFormed ==
  (cronExpr # NoExpr /\ cronExpr # Rejected) =>
    /\ sched.frequency \in {"daily", "weekly", "monthly"}
    /\ sched.hour \in 0..23
    /\ sched.minute \in 0..59
    /\ sched.frequency = "weekly" => sched.dayOfWeek \in 0..6
    /\ sched.frequency = "monthly" => sched.dayOfMonth \in 1..31

\* C23: when no create, update or delete request is in progress and the
\* startup load is over, every stored schedule has a trigger in the registry
\* exactly when its stored isEnabled is true, and that trigger holds the
\* stored search configuration.
C23_TriggerFollowsStorage ==
  (reqs = EmptyBag /\ boot = "done") =>
    \A i \in Ids :
      schedules[i].exists =>
        /\ registeredTasks[i] # 0 <=> schedules[i].isEnabled
        /\ registeredTasks[i] # 0 =>
             timers[registeredTasks[i]].searchConfig = schedules[i].searchConfig

C25_DuplicateOnlyOfAccepted ==
  candidates # NoOutcome =>
    \A k \in DOMAIN candidates.list :
      "duplicate_domain" \in candidates.list[k].filteredDetails =>
        \/ candidates.list[k].domain \in existingDomainsOf(leadsTable)
        \/ \E j \in 1..(k - 1) :
             /\ candidates.list[j].domain = candidates.list[k].domain
             /\ candidates.list[j].filteredDetails = {}

\* C26: for a keyword of index.ts with P result pages to request, the
\* requests made are P, and the request for page p (from 0) has the offset
\* serpNum * p.
C26_PageOffsets ==
  impl = "ts" =>
    \A k \in DOMAIN pipe.results :
      pipe.results[k].starts = [p \in 1..pipe.pages |-> serpNum * (p - 1)]

\* C28: the pages index.ts requests per keyword are the serpPages of the
\* body when the body gives one, else the serpPages of the settings, else
\* (settings not loaded) 1.
C28_PagesFromSettings ==
  (impl = "ts" /\ pipe.pc # "idle" /\ pipe.bodyPages # 0 /\ pipe.settingPages # 0)
    => pipe.pages = IF pipe.bodyPages # Unset THEN pipe.bodyPages
                    ELSE IF pipe.settingPages # Unset THEN pipe.settingPages
                    ELSE 1

\* C27: the word count is fetched only for candidates without a reason, in
\* the persist loop and only when minWords > 0; with minWords > 0 every
\* candidate the loop has handled was counted, and one whose count is
\* unknown or below minWords is not saved and is reported with
\* below_min_words.
C27_MinWordsLast ==
  candidates # NoOutcome =>
    LET kept == deduped(candidates.list)
        rep  == resultsForResponse(candidates)
    IN /\ \A f \in candidates.counted :
            /\ config.minWords > 0
            /\ \E k \in 1..candidates.idx : kept[k].item.link = f.link
       /\ \A k \in DOMAIN candidates.list :
            candidates.list[k].filteredDetails # {}
            => \A f \in candidates.counted :
                 f.link # candidates.list[k].item.link
       /\ config.minWords > 0 =>
            \A k \in 1..candidates.idx :
              \E f \in candidates.counted :
                /\ f.link = kept[k].item.link
                /\ (f.wc = Unset \/ f.wc < config.minWords)
                   => /\ \A j \in DOMAIN candidates.savedLeads :
                           candidates.savedLeads[j].url # f.link
                      /\ \A j \in DOMAIN leadsTable :
                           leadsTable[j].url # f.link
                      /\ \E j \in DOMAIN rep :
                           /\ rep[j].url = f.link
                           /\ "below_min_words" \in rep[j].reasons

\* A request with minWords > 0 is through its persist loop: one candidate
\* had been rejected by a filter, and a survivor's word count was unknown.
C27_Witness ==
  /\ candidates # NoOutcome
  /\ config.minWords > 0
  /\ \E k \in DOMAIN candidates.list : candidates.list[k].filteredDetails # {}
  /\ \E f \in candidates.counted : f.wc = Unset
  /\ candidates.idx = Len(deduped(candidates.list))

\* C29: with avoidDuplicates set in every request and a table that starts
\* with at most one lead per domain, no two leads of the table ever have
\* the same normalized domain, however the requests interleave.
C29_OneLeadPerDomain ==
  \A j, k \in DOMAIN leadsTable :
    j # k => DomainOf(leadsTable[j].url) # DomainOf(leadsTable[k].url)

\* C30: a nextRunAt that is written is the next instant at which the task
\* of the schedule runs: the task runs at nextRunAt and at no instant
\* strictly between the write and nextRunAt.
C30_NextRunIsNextFire ==
  nextRun # NoNextRun =>
    /\ firesAt(sched, nextRun.at)
    /\ \A d \in clock.day..nextRun.at.day :
         LET t == [day |-> d, hour |-> sched.hour, minute |-> sched.minute,
                   ms |-> 0]
         IN Later(t, clock) /\ Later(nextRun.at, t) => ~firesAt(sched, t)

=============================================================================
